---- MODULE Spec2Model ----
(***************************************************************************)
(* FlowRadio: a model of the two server programs of the repository.        *)
(*                                                                         *)
(*   backend/main.go    the gRPC backend: the broadcast manager that fans  *)
(*                      UpdateMessages out to the StreamUpdates clients.   *)
(*   unnamed/part_001   the WebRTC relay: generateAudio (the paced         *)
(*                      pipe -> Opus -> track loop), handleOffer and the   *)
(*                      HTTP handlers for the current genre.               *)
(*                                                                         *)
(* The two programs are separate processes; each has its own               *)
(* specification over the module's variables.                              *)
(***************************************************************************)
EXTENDS Integers, Sequences, FiniteSets, TLC

VARIABLES
  \* ---- backend/main.go ----
  BroadcastChannel,  \* s.BroadcastChannel: the queue of updates to fan out
  clients,           \* s.clients: clientID -> the stream whose channel is registered
  clientID,          \* per StreamUpdates call: its clientID
  clientChan,        \* per StreamUpdates call: the contents of its clientChan
  chanClosed,        \* per StreamUpdates call: whether its clientChan was closed
  spc,               \* per StreamUpdates call: where the call is
  update,            \* per StreamUpdates call: the update it is sending
  crashed,           \* the process died of a panic
  produced,          \* number of updates pushed to BroadcastChannel so far
  vpc,               \* runVirtualCommentGenerator: waiting for a tick, or about to push
  \* history of the fan-out, for the properties
  attached,          \* the call has registered and has neither cleaned up nor been evicted
  want,              \* updates fanned out while the call was attached
  got,               \* updates put into the call's clientChan
  evictedAt,         \* id of the update on which the manager evicted the call (0: none)
  sinceDrain,        \* updates fanned out to the call since its channel was last drained
  \* ---- unnamed/part_001: generateAudio ----
  ppc,               \* where the generateAudio goroutine is
  fifo,              \* /tmp/audio_pipe: "missing", "idle" (no writer) or "writing"
  pipeBytes,         \* bytes the producer has written and the relay has not read
  pipeOpen,          \* number of open handles the relay holds on the pipe
  tickerC,           \* ticks buffered in ticker.C
  frameLen,          \* bytes io.ReadFull put into pcmBuffer in this cycle
  encFault,          \* encoder.Encode returns an error at present
  \* ---- unnamed/part_001: sessions (handleOffer) ----
  sess,              \* per session: "none", "negotiating", "active" or "closed"
  heard,             \* the sessions whose leg carried the last sample written to audioTrack
  \* history of the pipeline, for the properties
  lastFault,         \* the pipeline's last failure: "none", "openfail", "readfail", "encfail"
  pubSinceFault,     \* a sample was written since the last failed cycle
  cyclesSinceTick,   \* cycles started since the ticker last fired
  tickLate,          \* the buffered tick fired while a cycle was still running
  cycleLate,         \* the cycle under way was started by such a tick
  offerSinceFail,    \* a session was negotiated since the last read failure
  \* ---- unnamed/part_001: handleOffer ----
  opc,               \* per /offer request: where its handler is
  oreq,              \* per /offer request: its method and the kind of its body
  ostatus,           \* per /offer request: the status code of its response (0: none yet)
  obody,             \* per /offer request: the body of its response
  ocors,             \* per /offer request: its response carries the Access-Control-Allow headers
  pc,                \* per /offer request: its peerConnection, "none" or "open"
  leg,               \* per /offer request: senders of audioTrack added to its peerConnection
  drain,             \* per /offer request: its RTCP reader goroutine is running
  gathered,          \* per /offer request: ICE gathering of its peerConnection is complete
  legTrack,          \* per /offer request: the track its sender was made for
  encoders,          \* the tasks that have made an Opus encoder
  \* ---- backend/main.go: HostState and the HandleUserPrompt calls ----
  hostGenre,         \* HostState.CurrentGenre
  history,           \* HostState.ConversationHistory
  mu,                \* HostState.mu: the call that holds it, or 0
  upc,               \* per HandleUserPrompt call: where it is
  snap,              \* per call: the length of the history it handed to the LLM
  llm,               \* per call: what AnalyzeAndGenerate returned
  resp,              \* per call: the PromptResponse it returned
  sent,              \* per call: the updates it has put into the BroadcastChannel
  \* ---- unnamed/part_001: the genre handlers ----
  currentGenre,      \* the global string, as its two words: data pointer and length
  genreFile,         \* /tmp/genre_request.txt
  gpc,               \* per HTTP request: where its handler is
  reqGenre,          \* per POST /genre: req.Genre
  words,             \* per request: the words of currentGenre it has stored or loaded
  obs,               \* per GET /current-genre: the words it has loaded
  status,            \* per request: the status code of its response (0: none yet)
  respGenre,         \* per request: the genre string in its response
  \* history of the genre requests, for the properties
  overlapped,        \* per POST /genre: another POST /genre ran while it did
  settled,           \* the genre of the last POST /genre to complete, and whether it ran alone
  clean,             \* per GET /current-genre: no POST /genre ran while it did
  expect,            \* per GET /current-genre: `settled` when it started
  shape,             \* per POST /genre: whether its body had the shape {genre: string}
  \* ---- unnamed/part_001: the requests the handlers answer at once ----
  hreq,              \* per request: its path and method
  hresp              \* per request: status, body and CORS headers of its response

bvars == <<BroadcastChannel, clients, clientID, clientChan, chanClosed, spc, update,
            crashed, produced, vpc, attached, want, got, evictedAt, sinceDrain>>

pvars == <<ppc, fifo, pipeBytes, pipeOpen, tickerC, frameLen, encFault,
           sess, heard, lastFault, pubSinceFault, cyclesSinceTick, tickLate, cycleLate,
           offerSinceFail>>

ovars == <<opc, oreq, ostatus, obody, ocors, pc, leg, drain, gathered, legTrack>>

gvars == <<currentGenre, genreFile, gpc, reqGenre, words, obs, status, respGenre,
           overlapped, settled, clean, expect, shape>>

hvars == <<hreq, hresp>>

uvars == <<hostGenre, history, mu, upc, snap, llm, resp, sent>>

vars == <<bvars, pvars, ovars, gvars, hvars, encoders, uvars>>

exceptBroadcast == <<pvars, ovars, gvars, hvars, encoders, uvars>>
\* what the loop of generateAudio leaves alone; its encoder was made before the loop
exceptPipeline == <<bvars, gvars, hvars, encoders, uvars>>
exceptGenre == <<bvars, pvars, ovars, hvars, encoders, uvars>>
exceptHttp == <<bvars, pvars, ovars, gvars, encoders, uvars>>
\* what HandleUserPrompt leaves alone: the registry and the calls of
\* StreamUpdates, and the other program
exceptPrompt == <<clients, clientID, clientChan, chanClosed, spc, update, produced, vpc,
                  attached, want, got, evictedAt, sinceDrain,
                  pvars, ovars, gvars, hvars, encoders>>
\* what handleOffer leaves alone: the other program, the genre, the pipeline's own state
exceptOffer == <<bvars, gvars, hvars, encoders, uvars, ppc, fifo, pipeBytes, pipeOpen, tickerC, frameLen, encFault,
                 heard, lastFault, pubSinceFault, cyclesSinceTick, tickLate, cycleLate>>

-----------------------------------------------------------------------------
(* Bounds of the model *)

\* number of StreamUpdates calls
NumStreams == 2
\* number of updates pushed to the broadcast channel
MaxUpdates == 2
\* capacity of a clientChan.  The source makes it with 10 slots; the model is
\* checked at a smaller capacity and every formula is stated relative to it.
ClientChanCap == 1
\* capacity of the BroadcastChannel (100 slots in the source), scaled likewise
BroadcastCap == 1

\* number of HandleUserPrompt calls
NumCalls == 2

\* number of sessions (POST /offer requests)
NumSessions == 2
\* frames the pipe buffers before the producer's write blocks
MaxPipeFrames == 1
\* number of HTTP requests to the genre handlers
NumReqs == 3

Streams == 1..NumStreams
\* the client_session_id values a request carries; "" asks for a generated id
RequestIDs == {"", "x"}
NoUpdate == [id |-> 0, type |-> "NONE"]

-----------------------------------------------------------------------------
(* backend/main.go *)

\* clientID := in.GetClientSessionId(); if clientID == "" { clientID = "Client-<nanotime>" }
ResolveClientID(s, rid) == IF rid = "" THEN <<"Client", s>> ELSE <<"req", rid>>

Registered(s) == clientID[s] \in DOMAIN clients /\ clients[clientID[s]] = s

\* delete(s.clients, id)
MapKeep(m, id) == m
MapDelete(m, id) == [k \in (DOMAIN m) \ {id} |-> m[k]]
\* s.clients[id] = ch
MapPut(m, id, v) == [k \in (DOMAIN m) \cup {id} |-> IF k = id THEN v ELSE m[k]]

\* a channel that took one update more than its capacity, as a Go channel does not
CanAcceptOffByOne(s) == Len(clientChan[s]) <= ClientChanCap
\* the select's send case: the buffered channel takes the update
CanAccept(s) == Len(clientChan[s]) < ClientChanCap

\* The streams the manager's loop reaches, and what its select does with each.
Targets == {clients[k] : k \in DOMAIN clients}
DeliveredTo == {s \in Targets : CanAccept(s)}
Evicted == {s \in Targets : ~CanAccept(s)}

\* s.HostState.mu.Lock() returns
NoMutex(c) == TRUE
CanLock(c) == mu = 0

\* runVirtualCommentGenerator, lines 107-112: a tick of the 5 s ticker, then
\* the locked read of HostState.CurrentGenre for the text of the comment.
\* The generator is call 0 of the mutex.
VirtualTick ==
  /\ ~crashed
  /\ vpc = "tick"
  /\ produced < MaxUpdates
  /\ CanLock(0)
  /\ vpc' = "push"
  /\ UNCHANGED <<BroadcastChannel, clients, clientID, clientChan, chanClosed, spc, update,
                 crashed, produced, attached, want, got, evictedAt, sinceDrain,
                 exceptBroadcast>>

\* runVirtualCommentGenerator, lines 114-123: the VIRTUAL_COMMENT update is
\* pushed; the send blocks while the broadcast channel is full.
VirtualComment ==
  /\ ~crashed
  /\ vpc = "push"
  /\ Len(BroadcastChannel) < BroadcastCap
  /\ produced' = produced + 1
  /\ vpc' = "tick"
  /\ BroadcastChannel' = Append(BroadcastChannel,
                                [id |-> produced + 1, type |-> "VIRTUAL_COMMENT"])
  /\ UNCHANGED <<clients, clientID, clientChan, chanClosed, spc, update,
                 crashed, attached, want, got, evictedAt, sinceDrain,
                 exceptBroadcast>>

\* runBroadcastManager: one iteration of `for update := range s.BroadcastChannel`,
\* the whole loop over s.clients under clientMux.  A send on a closed channel panics.
Publish ==
  /\ ~crashed
  /\ BroadcastChannel # <<>>
  /\ LET u == Head(BroadcastChannel) IN
     /\ BroadcastChannel' = Tail(BroadcastChannel)
     /\ IF \E s \in Targets : chanClosed[s]
        THEN /\ crashed' = TRUE
             /\ UNCHANGED <<clients, clientChan, chanClosed, attached, want, got,
                            evictedAt, sinceDrain>>
        ELSE /\ crashed' = crashed
             /\ clientChan' = [s \in Streams |->
                  IF s \in DeliveredTo THEN Append(clientChan[s], u) ELSE clientChan[s]]
             /\ chanClosed' = [s \in Streams |-> chanClosed[s] \/ s \in Evicted]
             /\ clients' = [k \in {k \in DOMAIN clients : clients[k] \notin Evicted}
                              |-> clients[k]]
             /\ got' = [s \in Streams |->
                  IF s \in DeliveredTo THEN Append(got[s], u.id) ELSE got[s]]
             /\ want' = [s \in Streams |->
                  IF attached[s] /\ s \notin Evicted THEN Append(want[s], u.id)
                  ELSE want[s]]
             /\ attached' = [s \in Streams |-> attached[s] /\ s \notin Evicted]
             /\ evictedAt' = [s \in Streams |->
                  IF s \in Evicted THEN u.id ELSE evictedAt[s]]
             /\ sinceDrain' = [s \in Streams |->
                  IF s \in Targets THEN sinceDrain[s] + 1 ELSE sinceDrain[s]]
  /\ UNCHANGED <<clientID, spc, update, produced,
                 vpc, exceptBroadcast>>

\* StreamUpdates, lines 215-223: resolve the id, make the channel, register it.
\* The calls are numbered in their order of arrival.
Register(s, rid) ==
  /\ ~crashed
  /\ spc[s] = "start"
  /\ \A t \in Streams : t < s => spc[t] # "start"
  /\ LET cid == ResolveClientID(s, rid) IN
     /\ clientID' = [clientID EXCEPT ![s] = cid]
     /\ clients' = MapPut(clients, cid, s)
  /\ spc' = [spc EXCEPT ![s] = "loop"]
  /\ attached' = [attached EXCEPT ![s] = TRUE]
  /\ UNCHANGED <<BroadcastChannel, clientChan, chanClosed, update, crashed,
                 produced, want, got, evictedAt, sinceDrain,
                 vpc, exceptBroadcast>>

\* StreamUpdates, `for update := range clientChan`: take the next update, or
\* leave the loop when the channel is closed and drained.
Recv(s) ==
  /\ ~crashed
  /\ spc[s] = "loop"
  /\ \/ /\ clientChan[s] # <<>>
        /\ update' = [update EXCEPT ![s] = Head(clientChan[s])]
        /\ clientChan' = [clientChan EXCEPT ![s] = Tail(clientChan[s])]
        /\ spc' = [spc EXCEPT ![s] = "send"]
        /\ sinceDrain' = [sinceDrain EXCEPT ![s] = 0]
     \/ /\ clientChan[s] = <<>>
        /\ chanClosed[s]
        /\ spc' = [spc EXCEPT ![s] = "cleanup"]
        /\ UNCHANGED <<update, clientChan, sinceDrain>>
  /\ UNCHANGED <<BroadcastChannel, clients, clientID, chanClosed, crashed,
                 produced, attached, want, got, evictedAt,
                 vpc, exceptBroadcast>>

\* stream.Send(update) returns: nil (back to the loop) or an error (return err).
Send(s, ok) ==
  /\ ~crashed
  /\ spc[s] = "send"
  /\ spc' = [spc EXCEPT ![s] = IF ok THEN "loop" ELSE "cleanup"]
  /\ update' = [update EXCEPT ![s] = NoUpdate]
  /\ UNCHANGED <<BroadcastChannel, clients, clientID, clientChan, chanClosed,
                 crashed, produced, attached, want, got, evictedAt, sinceDrain,
                 vpc, exceptBroadcast>>

\* StreamUpdates, the deferred cleanup: delete(s.clients, clientID); close(clientChan).
\* Closing a channel that is already closed panics.
Cleanup(s) ==
  /\ ~crashed
  /\ spc[s] = "cleanup"
  /\ clients' = MapDelete(clients, clientID[s])
  /\ IF chanClosed[s]
     THEN crashed' = TRUE /\ UNCHANGED chanClosed
     ELSE chanClosed' = [chanClosed EXCEPT ![s] = TRUE] /\ UNCHANGED crashed
  /\ spc' = [spc EXCEPT ![s] = "done"]
  /\ attached' = [attached EXCEPT ![s] = FALSE]
  /\ UNCHANGED <<BroadcastChannel, clientID, clientChan, update, produced,
                 want, got, evictedAt, sinceDrain,
                 vpc, exceptBroadcast>>

InitBroadcast ==
  /\ BroadcastChannel = <<>>
  /\ clients = [k \in {} |-> 0]
  /\ clientID = [s \in Streams |-> <<"none", 0>>]
  /\ clientChan = [s \in Streams |-> <<>>]
  /\ chanClosed = [s \in Streams |-> FALSE]
  /\ spc = [s \in Streams |-> "start"]
  /\ update = [s \in Streams |-> NoUpdate]
  /\ crashed = FALSE
  /\ produced = 0
  /\ vpc = "tick"
  /\ attached = [s \in Streams |-> FALSE]
  /\ want = [s \in Streams |-> <<>>]
  /\ got = [s \in Streams |-> <<>>]
  /\ evictedAt = [s \in Streams |-> 0]
  /\ sinceDrain = [s \in Streams |-> 0]

NextBroadcast ==
  \/ VirtualTick
  \/ VirtualComment
  \/ Publish
  \/ \E s \in Streams, rid \in RequestIDs : Register(s, rid)
  \/ \E s \in Streams : Recv(s)
  \/ \E s \in Streams, ok \in BOOLEAN : Send(s, ok)
  \/ \E s \in Streams : Cleanup(s)

-----------------------------------------------------------------------------
(* backend/main.go: HandleUserPrompt *)

Calls == 1..NumCalls
initialCurrentGenre == "lofi"
\* the marker by which the LLM says that the genre stays
KeepCurrent == "current_genre"

\* What AnalyzeAndGenerate returns: an error, or a result with its
\* music_prompts; a JSON answer without the field leaves the slice empty.
LLMResults == { [err |-> TRUE,  prompts |-> <<>>],
                [err |-> FALSE, prompts |-> <<>>],
                [err |-> FALSE, prompts |-> <<KeepCurrent>>],
                [err |-> FALSE, prompts |-> <<"rock">>] }
NoResult == [err |-> FALSE, prompts |-> <<"-">>]

\* lines 163-170: the first prompt, or the initial genre when there is none
PrimaryPrompt(res) ==
  IF Len(res.prompts) > 0 THEN res.prompts[1] ELSE initialCurrentGenre

\* lines 181-184: `if llmResult.MusicPrompts[0] != "current_genre"`
GenreAfter(g, res) == IF res.prompts[1] # KeepCurrent THEN res.prompts[1] ELSE g

\* llmResult.MusicPrompts[0] with an empty slice: index out of range
IndexPanics(res) == Len(res.prompts) = 0

\* the updates a call pushes
HostSpeechOnError(c) == [id |-> 0, type |-> "HOST_SPEECH", call |-> c, genre |-> "-"]
SystemStatus(c) == [id |-> 0, type |-> "SYSTEM_STATUS", call |-> c, genre |-> "-"]
HostSpeech(c) == [id |-> 0, type |-> "HOST_SPEECH", call |-> c, genre |-> "-"]
GenreChange(c, g) == [id |-> 0, type |-> "GENRE_CHANGE", call |-> c, genre |-> g]

\* `s.BroadcastChannel <- u` returns
CanPush == Len(BroadcastChannel) < BroadcastCap

\* lines 132-146: the first locked section, which copies the personality and
\* the history, and the start of the LLM call.  The calls are numbered in
\* order of arrival.
PromptBegin(c) ==
  /\ ~crashed
  /\ upc[c] = "idle"
  /\ \A d \in Calls : d < c => upc[d] # "idle"
  /\ CanLock(c)
  /\ snap' = [snap EXCEPT ![c] = Len(history)]
  /\ upc' = [upc EXCEPT ![c] = "llm"]
  /\ UNCHANGED <<hostGenre, history, mu, llm, resp, sent, BroadcastChannel, crashed,
                 exceptPrompt>>

\* lines 146-171: AnalyzeAndGenerate returns.  On an error the call goes on
\* to push the status update; otherwise it logs llmResult.MusicPrompts[0]
\* (line 160), which panics on an empty slice and ends the process, and
\* chooses primaryPrompt.
LLMReturn(c, res) ==
  /\ ~crashed
  /\ upc[c] = "llm"
  /\ llm' = [llm EXCEPT ![c] = res]
  /\ IF res.err
     THEN upc' = [upc EXCEPT ![c] = "errpush"] /\ UNCHANGED crashed
     ELSE IF IndexPanics(res)
     THEN upc' = [upc EXCEPT ![c] = "panic"] /\ crashed' = TRUE
     ELSE upc' = [upc EXCEPT ![c] = "lock"] /\ UNCHANGED crashed
  /\ UNCHANGED <<hostGenre, history, mu, snap, resp, sent, BroadcastChannel,
                 exceptPrompt>>

\* lines 150-158: the SYSTEM_STATUS update and the response Success=false
ErrPush(c) ==
  /\ ~crashed
  /\ upc[c] = "errpush"
  /\ CanPush
  /\ BroadcastChannel' = Append(BroadcastChannel, SystemStatus(c))
  /\ sent' = [sent EXCEPT ![c] = Append(sent[c], SystemStatus(c))]
  /\ resp' = [resp EXCEPT ![c] = "fail"]
  /\ upc' = [upc EXCEPT ![c] = "done"]
  /\ UNCHANGED <<hostGenre, history, mu, snap, llm, crashed, exceptPrompt>>

\* lines 173-174: s.HostState.mu.Lock(), held until the call returns
PromptLock(c) ==
  /\ ~crashed
  /\ upc[c] = "lock"
  /\ CanLock(c)
  /\ mu' = c
  /\ upc' = [upc EXCEPT ![c] = "user"]
  /\ UNCHANGED <<hostGenre, history, snap, llm, resp, sent, BroadcastChannel, crashed,
                 exceptPrompt>>

\* line 177: the user entry
AppendUser(c) ==
  /\ ~crashed
  /\ upc[c] = "user"
  /\ history' = Append(history, [role |-> "user", call |-> c])
  /\ upc' = [upc EXCEPT ![c] = "assistant"]
  /\ UNCHANGED <<hostGenre, mu, snap, llm, resp, sent, BroadcastChannel, crashed,
                 exceptPrompt>>

\* lines 178-184: the assistant entry, then the genre
AppendAssistant(c) ==
  /\ ~crashed
  /\ upc[c] = "assistant"
  /\ history' = Append(history, [role |-> "assistant", call |-> c])
  /\ hostGenre' = GenreAfter(hostGenre, llm[c])
  /\ upc' = [upc EXCEPT ![c] = "speech"]
  /\ UNCHANGED <<mu, snap, llm, resp, sent, BroadcastChannel, crashed, exceptPrompt>>

\* lines 189-196: the HOST_SPEECH update
PushSpeech(c) ==
  /\ ~crashed
  /\ upc[c] = "speech"
  /\ CanPush
  /\ BroadcastChannel' = Append(BroadcastChannel, HostSpeech(c))
  /\ sent' = [sent EXCEPT ![c] = Append(sent[c], HostSpeech(c))]
  /\ upc' = [upc EXCEPT ![c] = "genre"]
  /\ UNCHANGED <<hostGenre, history, mu, snap, llm, resp, crashed, exceptPrompt>>

\* lines 198-209: the GENRE_CHANGE update naming primaryPrompt, the response
\* Success=true and the deferred Unlock
PushGenreChange(c) ==
  /\ ~crashed
  /\ upc[c] = "genre"
  /\ CanPush
  /\ BroadcastChannel' = Append(BroadcastChannel, GenreChange(c, PrimaryPrompt(llm[c])))
  /\ sent' = [sent EXCEPT ![c] = Append(sent[c], GenreChange(c, PrimaryPrompt(llm[c])))]
  /\ resp' = [resp EXCEPT ![c] = "ok"]
  /\ mu' = IF mu = c THEN 0 ELSE mu
  /\ upc' = [upc EXCEPT ![c] = "done"]
  /\ UNCHANGED <<hostGenre, history, snap, llm, crashed, exceptPrompt>>

InitPrompt ==
  /\ hostGenre = initialCurrentGenre
  /\ history = <<>>
  /\ mu = 0
  /\ upc = [c \in Calls |-> "idle"]
  /\ snap = [c \in Calls |-> 0]
  /\ llm = [c \in Calls |-> NoResult]
  /\ resp = [c \in Calls |-> "none"]
  /\ sent = [c \in Calls |-> <<>>]

\* the calls, and the broadcast manager that empties the channel they push to
NextPrompt ==
  \/ \E c \in Calls : PromptBegin(c)
  \/ \E c \in Calls, res \in LLMResults : LLMReturn(c, res)
  \/ \E c \in Calls : ErrPush(c)
  \/ \E c \in Calls : PromptLock(c)
  \/ \E c \in Calls : AppendUser(c)
  \/ \E c \in Calls : AppendAssistant(c)
  \/ \E c \in Calls : PushSpeech(c)
  \/ \E c \in Calls : PushGenreChange(c)
  \/ Publish

\* the notification path: the calls, the virtual-comment generator and the
\* broadcast manager
NextNotify == NextPrompt \/ VirtualTick \/ VirtualComment

-----------------------------------------------------------------------------
(* unnamed/part_001: generateAudio *)

sampleRate == 48000
channels == 2
frameDurationMs == 20
\* int(float64(sampleRate) * frameDuration.Seconds())
samplesPerFrame == (sampleRate * frameDurationMs) \div 1000
\* samplesPerFrame * channels * 2
bytesPerFrame == samplesPerFrame * channels * 2

Sessions == 1..NumSessions
\* the sizes of the producer's writes: half a frame, a whole frame
ChunkSizes == {bytesPerFrame \div 2, bytesPerFrame}
MaxPipeBytes == MaxPipeFrames * bytesPerFrame

\* the sessions whose leg of audioTrack is attached: the sender was added, the
\* negotiation went through and the peer connection was not closed
\* peerConnection.AddTrack(audioTrack): the one track main made
OwnTrack(s) == "track of the request"
TrackOf(s) == "audioTrack"

Legs == {s \in Sessions : leg[s] > 0 /\ pc[s] = "open" /\ sess[s] \in {"active", "closed"}}

\* a read that took any bytes for a frame, as io.ReadFull does not
ReadAcceptsShort(n) == n > 0
\* io.ReadFull(pipe, pcmBuffer) returns err == nil only for len(pcmBuffer) bytes
ReadOK(n) == n = bytesPerFrame

\* the pipeline had failure f
Failed(f) == lastFault' = f /\ pubSinceFault' = FALSE

\* a ticker that queued every tick, as time.Ticker does not
TickerQueuesAll(c) == c + 1
\* ticker.C has one slot: a tick that finds it full is dropped
TickerAfterFire(c) == 1

\* what the loop does after a read error: break, to pipe.Close() and the reopen
AfterReadErrorReopen == "open"
AfterReadError == "close"

\* a loop that broke out to pipe.Close() on an encode error, as this one does not
AfterEncodeErrorClose == "close"
\* what the loop does after an encode error: continue, to the next tick
AfterEncodeError == "tick"

\* a loop that returned after a failed os.Open, as this one does not
AfterSleepExit == "exited"
\* what the loop does after os.Open failed and the 2s sleep: continue, to os.Open
AfterSleep == "open"

\* a close of the pipe that dropped the attached sessions, as pipe.Close() does not
SessAfterCloseReset == [s \in Sessions |-> IF sess[s] = "active" THEN "closed" ELSE sess[s]]
\* pipe.Close() touches no peer connection and no binding of audioTrack: the
\* sessions after it
SessAfterClose == sess

\* os.Open(pipePath): fails while the FIFO is missing, blocks while it has no
\* writer, succeeds once a writer holds it.
OpenPipe ==
  /\ ppc = "open"
  /\ \/ /\ fifo = "missing"
        /\ ppc' = "sleep"
        /\ Failed("openfail")
        /\ UNCHANGED pipeOpen
     \/ /\ fifo = "writing"
        /\ pipeOpen' = pipeOpen + 1
        /\ ppc' = "tick"
        /\ UNCHANGED <<lastFault, pubSinceFault>>
  /\ UNCHANGED <<fifo, pipeBytes, tickerC, frameLen, encFault, sess,
                 heard, cyclesSinceTick, offerSinceFail,
                 tickLate, cycleLate, ovars, exceptPipeline>>

\* time.Sleep(2 * time.Second); continue
Sleep ==
  /\ ppc = "sleep"
  /\ ppc' = AfterSleep
  /\ UNCHANGED <<fifo, pipeBytes, pipeOpen, tickerC, frameLen, encFault, sess, heard,
                 lastFault, pubSinceFault, cyclesSinceTick, offerSinceFail,
                 tickLate, cycleLate, ovars, exceptPipeline>>

\* the runtime's ticker fires every frameDuration
TickFire ==
  /\ tickerC' = TickerAfterFire(tickerC)
  /\ cyclesSinceTick' = 0
  /\ tickLate' = IF tickerC = 0 THEN ppc \in {"read", "encode", "write"} ELSE tickLate
  /\ UNCHANGED <<ppc, fifo, pipeBytes, pipeOpen, frameLen, encFault, sess,
                 heard, lastFault, pubSinceFault, offerSinceFail, cycleLate,
                 ovars, exceptPipeline>>

\* `for range ticker.C`: receive a tick and start a cycle
Tick ==
  /\ ppc = "tick"
  /\ tickerC > 0
  /\ tickerC' = tickerC - 1
  /\ ppc' = "read"
  /\ cyclesSinceTick' = cyclesSinceTick + 1
  /\ cycleLate' = tickLate
  /\ tickLate' = FALSE
  /\ UNCHANGED <<fifo, pipeBytes, pipeOpen, frameLen, encFault, sess,
                 heard, lastFault, pubSinceFault, offerSinceFail, ovars, exceptPipeline>>

\* io.ReadFull(pipe, pcmBuffer): returns when the buffer is full, or with an
\* error and what it has read when the writer is gone.
ReadFrame ==
  /\ ppc = "read"
  /\ \/ pipeBytes >= bytesPerFrame
     \/ fifo # "writing"
  /\ LET n == IF pipeBytes >= bytesPerFrame THEN bytesPerFrame ELSE pipeBytes IN
     /\ pipeBytes' = pipeBytes - n
     /\ IF ReadOK(n)
        THEN /\ frameLen' = n
             /\ ppc' = "encode"
             /\ UNCHANGED <<lastFault, pubSinceFault, offerSinceFail>>
        ELSE /\ frameLen' = n
             /\ ppc' = AfterReadError
             /\ Failed("readfail")
             /\ offerSinceFail' = FALSE
  /\ UNCHANGED <<fifo, pipeOpen, tickerC, encFault, sess, heard,
                 cyclesSinceTick,
                 tickLate, cycleLate, ovars, exceptPipeline>>

\* the conversion to int16 and encoder.Encode(pcmInt16, opusBuffer)
Encode ==
  /\ ppc = "encode"
  /\ IF encFault
     THEN /\ ppc' = AfterEncodeError
          /\ frameLen' = 0
          /\ Failed("encfail")
     ELSE /\ ppc' = "write"
          /\ UNCHANGED <<frameLen, lastFault, pubSinceFault>>
  /\ UNCHANGED <<fifo, pipeBytes, pipeOpen, tickerC, encFault, sess,
                 heard, cyclesSinceTick, offerSinceFail,
                 tickLate, cycleLate, ovars, exceptPipeline>>

\* audioTrack.WriteSample(...): the sample goes to every attached leg; its
\* error is ignored.
WriteSample ==
  /\ ppc = "write"
  /\ heard' = Legs
  /\ frameLen' = 0
  /\ ppc' = "tick"
  /\ pubSinceFault' = TRUE
  /\ UNCHANGED <<fifo, pipeBytes, pipeOpen, tickerC, encFault, sess, lastFault,
                 cyclesSinceTick, offerSinceFail,
                 tickLate, cycleLate, ovars, exceptPipeline>>

\* pipe.Close() after the inner loop broke; the unread bytes are lost
ClosePipe ==
  /\ ppc = "close"
  /\ pipeOpen' = pipeOpen - 1
  /\ pipeBytes' = 0
  /\ frameLen' = 0
  /\ sess' = SessAfterClose
  /\ ppc' = "open"
  /\ UNCHANGED <<fifo, tickerC, encFault, heard, lastFault,
                 pubSinceFault, cyclesSinceTick, offerSinceFail,
                 tickLate, cycleLate, ovars, exceptPipeline>>

\* The producer: init_pipe.sh makes the FIFO, the generator opens it, writes
\* PCM and may go away at any time; the FIFO may be removed while unused.
Producer ==
  /\ \/ fifo = "missing" /\ fifo' = "idle" /\ UNCHANGED pipeBytes
     \/ fifo = "idle" /\ pipeOpen = 0 /\ fifo' = "missing" /\ UNCHANGED pipeBytes
     \/ fifo = "idle" /\ fifo' = "writing" /\ UNCHANGED pipeBytes
     \/ fifo = "writing" /\ fifo' = "idle" /\ UNCHANGED pipeBytes
     \/ /\ fifo = "writing"
        /\ pipeOpen > 0
        /\ \E n \in ChunkSizes :
             /\ pipeBytes + n <= MaxPipeBytes
             /\ pipeBytes' = pipeBytes + n
        /\ UNCHANGED fifo
  /\ UNCHANGED <<ppc, pipeOpen, tickerC, frameLen, encFault, sess,
                 heard, lastFault, pubSinceFault, cyclesSinceTick, offerSinceFail,
                 tickLate, cycleLate, ovars, exceptPipeline>>

\* encoder.Encode starts or stops failing
EncoderFault ==
  /\ encFault' = ~encFault
  /\ UNCHANGED <<ppc, fifo, pipeBytes, pipeOpen, tickerC, frameLen, sess,
                 heard, lastFault, pubSinceFault, cyclesSinceTick, offerSinceFail,
                 tickLate, cycleLate, ovars, exceptPipeline>>

\* handleOffer from its first line to the answer, for a well-formed offer and
\* with every call succeeding: the peer connection is made, AddTrack adds the
\* leg, the RTCP reader starts, gathering completes and the answer is sent.
\* The sessions are numbered in order of arrival.
Offer(s) ==
  /\ sess[s] = "none" /\ opc[s] = "idle"
  /\ \A t \in Sessions : t < s => opc[t] # "idle"
  /\ sess' = [sess EXCEPT ![s] = "active"]
  /\ opc' = [opc EXCEPT ![s] = "done"]
  /\ oreq' = [oreq EXCEPT ![s] = [method |-> "POST", body |-> "offer"]]
  /\ ostatus' = [ostatus EXCEPT ![s] = 200]
  /\ obody' = [obody EXCEPT ![s] = "answer"]
  /\ ocors' = [ocors EXCEPT ![s] = TRUE]
  /\ pc' = [pc EXCEPT ![s] = "open"]
  /\ leg' = [leg EXCEPT ![s] = 1]
  /\ drain' = [drain EXCEPT ![s] = TRUE]
  /\ gathered' = [gathered EXCEPT ![s] = TRUE]
  /\ legTrack' = [legTrack EXCEPT ![s] = TrackOf(s)]
  /\ offerSinceFail' = TRUE
  /\ UNCHANGED <<ppc, fifo, pipeBytes, pipeOpen, tickerC, frameLen, encFault,
                 heard, lastFault, pubSinceFault, cyclesSinceTick,
                 tickLate, cycleLate, exceptPipeline>>

\* The peer of a session goes away (the client left, the network dropped): pion
\* reports the state to OnConnectionStateChange, which prints it.  Nothing in
\* the program calls peerConnection.Close(), so the connection, its sender and
\* its RTCP reader stay as they are.
PeerClose(s) ==
  /\ sess[s] = "active"
  /\ sess' = [sess EXCEPT ![s] = "closed"]
  /\ UNCHANGED <<ppc, fifo, pipeBytes, pipeOpen, tickerC, frameLen, encFault,
                 heard, lastFault, pubSinceFault, cyclesSinceTick,
                 offerSinceFail,
                 tickLate, cycleLate, ovars, exceptPipeline>>

InitPipeline ==
  /\ ppc = "open"
  /\ encoders = {"generateAudio"}
  /\ fifo = "missing"
  /\ pipeBytes = 0
  /\ pipeOpen = 0
  /\ tickerC = 0
  /\ frameLen = 0
  /\ encFault = FALSE
  /\ sess = [s \in Sessions |-> "none"]
  /\ heard = {}
  /\ lastFault = "none"
  /\ pubSinceFault = FALSE
  /\ cyclesSinceTick = 0
  /\ tickLate = FALSE
  /\ cycleLate = FALSE
  /\ offerSinceFail = FALSE

NextPipeline ==
  \/ OpenPipe
  \/ Sleep
  \/ Tick
  \/ ReadFrame
  \/ Encode
  \/ WriteSample
  \/ ClosePipe
  \/ TickFire
  \/ Producer
  \/ EncoderFault
  \/ \E s \in Sessions : Offer(s)
  \/ \E s \in Sessions : PeerClose(s)

-----------------------------------------------------------------------------
(* unnamed/part_001: handleOffer, step by step *)

Methods == {"POST", "OPTIONS", "GET"}
\* The request bodies: a session description; JSON that is none (as {} or an
\* object with a garbled sdp); text that is no JSON; a body whose read fails.
OfferBodies == {"offer", "nosdp", "nojson", "unreadable"}
NoRequest == [method |-> "-", body |-> "-"]

\* io.ReadAll(r.Body) and json.Unmarshal(body, &o): the only checks of the body
BodyRejected(body) == body \in {"nojson", "unreadable"}

\* the calls of the setup in their order; "none" stands for no failure
StageIndex == [codecs |-> 1, newpc |-> 2, addtrack |-> 3, remote |-> 4,
               answer |-> 5, local |-> 6, none |-> 7]
FailPoints == DOMAIN StageIndex
\* the call st returned without error when the setup fails at failAt
Passed(st, failAt) == StageIndex[st] < StageIndex[failAt]

\* `<-gatherComplete`: the handler goes on to the answer
CanAnswerEarly(s) == TRUE
CanAnswer(s) == gathered[s]

\* handleOffer, lines 153-192: the headers, the method checks, the read and the
\* unmarshal of the body.  The requests are numbered in order of arrival.
OfferBegin(s, method, body) ==
  /\ opc[s] = "idle"
  /\ \A t \in Sessions : t < s => opc[t] # "idle"
  /\ oreq' = [oreq EXCEPT ![s] =
               [method |-> method, body |-> IF method = "POST" THEN body ELSE "unread"]]
  /\ ocors' = [ocors EXCEPT ![s] = TRUE]
  /\ IF method = "OPTIONS"
     THEN /\ ostatus' = [ostatus EXCEPT ![s] = 200]
          /\ obody' = [obody EXCEPT ![s] = "empty"]
          /\ opc' = [opc EXCEPT ![s] = "done"]
     ELSE IF method # "POST"
     THEN /\ ostatus' = [ostatus EXCEPT ![s] = 405]
          /\ obody' = [obody EXCEPT ![s] = "error"]
          /\ opc' = [opc EXCEPT ![s] = "done"]
     ELSE IF BodyRejected(body)
     THEN /\ ostatus' = [ostatus EXCEPT ![s] = 400]
          /\ obody' = [obody EXCEPT ![s] = "error"]
          /\ opc' = [opc EXCEPT ![s] = "done"]
     ELSE /\ opc' = [opc EXCEPT ![s] = "setup"]
          /\ UNCHANGED <<ostatus, obody>>
  /\ UNCHANGED <<sess, pc, leg, drain, gathered, legTrack, offerSinceFail, exceptOffer>>

\* peerConnection, rtpSender and the RTCP reader are locals of the one request:
\* what the handler does with them touches the entry of that request only.
SharedByAll(f, s, v) == [t \in DOMAIN f |-> v]
OwnOnly(f, s, v) == [f EXCEPT ![s] = v]

\* handleOffer, lines 194-301: RegisterDefaultCodecs, NewPeerConnection,
\* AddTrack(audioTrack) and the start of the RTCP reader, SetRemoteDescription,
\* CreateAnswer, SetLocalDescription.  Each call may fail; the handler then
\* answers 500 and returns, leaving what the earlier calls made.  A body that
\* is no session description is refused by SetRemoteDescription at the latest.
OfferSetup(s, failAt) ==
  /\ opc[s] = "setup"
  /\ oreq[s].body = "nosdp" => StageIndex[failAt] <= StageIndex["remote"]
  /\ pc' = OwnOnly(pc, s, IF Passed("newpc", failAt) THEN "open" ELSE "none")
  /\ sess' = OwnOnly(sess, s, IF Passed("newpc", failAt) THEN "negotiating" ELSE "none")
  /\ leg' = OwnOnly(leg, s, IF Passed("addtrack", failAt) THEN 1 ELSE 0)
  /\ drain' = OwnOnly(drain, s, Passed("addtrack", failAt))
  /\ legTrack' = OwnOnly(legTrack, s, IF Passed("addtrack", failAt) THEN TrackOf(s) ELSE "none")
  /\ IF failAt = "none"
     THEN /\ opc' = [opc EXCEPT ![s] = "gather"]
          /\ UNCHANGED <<ostatus, obody>>
     ELSE /\ opc' = [opc EXCEPT ![s] = "done"]
          /\ ostatus' = [ostatus EXCEPT ![s] = 500]
          /\ obody' = [obody EXCEPT ![s] = "error"]
  /\ UNCHANGED <<oreq, ocors, gathered, offerSinceFail, exceptOffer>>

\* pion finishes the ICE gathering of the connection: gatherComplete is closed
GatherComplete(s) ==
  /\ opc[s] = "gather"
  /\ ~gathered[s]
  /\ gathered' = [gathered EXCEPT ![s] = TRUE]
  /\ UNCHANGED <<opc, oreq, ostatus, obody, ocors, pc, leg, drain, sess, legTrack,
                 offerSinceFail, exceptOffer>>

\* handleOffer, lines 303-317: `<-gatherComplete`, then the answer
OfferAnswer(s) ==
  /\ opc[s] = "gather"
  /\ CanAnswer(s)
  /\ ostatus' = [ostatus EXCEPT ![s] = 200]
  /\ obody' = [obody EXCEPT ![s] = "answer"]
  /\ opc' = [opc EXCEPT ![s] = "done"]
  /\ sess' = [sess EXCEPT ![s] = "active"]
  /\ offerSinceFail' = TRUE
  /\ UNCHANGED <<oreq, ocors, pc, leg, drain, gathered, legTrack, exceptOffer>>

InitOffer ==
  /\ opc = [s \in Sessions |-> "idle"]
  /\ oreq = [s \in Sessions |-> NoRequest]
  /\ ostatus = [s \in Sessions |-> 0]
  /\ obody = [s \in Sessions |-> "none"]
  /\ ocors = [s \in Sessions |-> FALSE]
  /\ pc = [s \in Sessions |-> "none"]
  /\ leg = [s \in Sessions |-> 0]
  /\ drain = [s \in Sessions |-> FALSE]
  /\ gathered = [s \in Sessions |-> FALSE]
  /\ legTrack = [s \in Sessions |-> "none"]

NextOffer ==
  \/ \E s \in Sessions, method \in Methods, body \in OfferBodies : OfferBegin(s, method, body)
  \/ \E s \in Sessions, failAt \in FailPoints : OfferSetup(s, failAt)
  \/ \E s \in Sessions : GatherComplete(s)
  \/ \E s \in Sessions : OfferAnswer(s)
  \/ \E s \in Sessions : PeerClose(s)

-----------------------------------------------------------------------------
(* unnamed/part_001: handleGenreChange and handleCurrentGenre *)

Reqs == 1..NumReqs
\* var currentGenre string = "lofi hip hop"
DefaultGenre == "lofi hip hop"
\* the genre names requested (a body without the field requests "" besides)
Genres == {"jazz"}
\* The request bodies: a JSON object with a string "genre", one without the
\* field, one whose "genre" is a number, and text that is no JSON.
Bodies == {[json |-> "object", genre |-> g] : g \in Genres}
            \cup {[json |-> "object", genre |-> "<absent>"],
                  [json |-> "object", genre |-> "<number>"],
                  [json |-> "invalid", genre |-> "<absent>"]}

\* the body is a JSON object whose "genre" is a string
MatchesShape(body) == body.json = "object" /\ body.genre \in Genres
\* json.NewDecoder(r.Body).Decode(&req) into struct{ Genre string }: an error
\* for text that is no JSON and for a "genre" of another type; a missing field
\* is no error and leaves req.Genre at ""
DecodeErr(body) == body.json = "invalid" \/ body.genre = "<number>"
DecodeGenre(body) == IF body.genre = "<absent>" THEN "" ELSE body.genre

\* A Go string is two words.  The bytes of genre g with the length of genre g
\* are the string g; words of two different stores are no string of the program.
Words == {"ptr", "len"}
Whole(g) == [ptr |-> g, len |-> g]
NoString == [ptr |-> "-", len |-> "-"]

\* the POST /genre requests between their decode and their response
InFlight == {r \in Reqs : gpc[r] \in {"assign", "file"}}
\* the GET /current-genre requests between their start and their response
Loading == {r \in Reqs : gpc[r] = "load"}

\* a genre file without the prefix token, as this one is not
FileContentNoPrefix(g) == <<g>>
\* content := "SMOOTH:" + req.Genre
FileContent(g) == <<"SMOOTH:", g>>

\* a failure path that put currentGenre back to the default, as this one does not
RolledBack(v) == [ptr |-> DefaultGenre, len |-> DefaultGenre]
\* currentGenre after os.WriteFile failed: the handler returns without touching it
AfterWriteFail(v) == v

\* `currentGenre = req.Genre`: the store of one word
Store(v, w, g) == [v EXCEPT ![w] = g]

\* handleGenreChange, lines 320-347: the method checks and the decode of the
\* body; a body that does not decode is answered 400.  The requests are
\* numbered in order of arrival.
GenreChangeBegin(r, body) ==
  /\ gpc[r] = "idle"
  /\ \A q \in Reqs : q < r => gpc[q] # "idle"
  /\ IF DecodeErr(body)
     THEN /\ gpc' = [gpc EXCEPT ![r] = "done"]
          /\ status' = [status EXCEPT ![r] = 400]
          /\ UNCHANGED <<reqGenre, overlapped, clean>>
     ELSE /\ gpc' = [gpc EXCEPT ![r] = "assign"]
          /\ reqGenre' = [reqGenre EXCEPT ![r] = DecodeGenre(body)]
          /\ overlapped' = [q \in Reqs |->
                IF InFlight # {} /\ (q = r \/ q \in InFlight) THEN TRUE
                ELSE overlapped[q]]
          /\ clean' = [q \in Reqs |-> clean[q] /\ q \notin Loading]
          /\ UNCHANGED status
  /\ shape' = [shape EXCEPT ![r] = IF MatchesShape(body) THEN "match" ELSE "mismatch"]
  /\ UNCHANGED <<currentGenre, genreFile, words, obs, respGenre, settled, expect,
                 exceptGenre>>

\* handleGenreChange, line 350: currentGenre = req.Genre, one word at a time,
\* with no lock held
GenreAssign(r, w) ==
  /\ gpc[r] = "assign"
  /\ w \notin words[r]
  /\ currentGenre' = Store(currentGenre, w, reqGenre[r])
  /\ IF words[r] \cup {w} = Words
     THEN /\ gpc' = [gpc EXCEPT ![r] = "file"]
          /\ words' = [words EXCEPT ![r] = {}]
     ELSE /\ words' = [words EXCEPT ![r] = words[r] \cup {w}]
          /\ UNCHANGED gpc
  /\ UNCHANGED <<genreFile, reqGenre, obs, status, respGenre, overlapped, settled,
                 clean, expect, shape, exceptGenre>>

\* handleGenreChange, lines 353-367: os.WriteFile of "SMOOTH:" + req.Genre,
\* then the 500 or the success body
GenreWriteFile(r, ok) ==
  /\ gpc[r] = "file"
  /\ IF ok
     THEN /\ genreFile' = FileContent(reqGenre[r])
          /\ status' = [status EXCEPT ![r] = 200]
          /\ respGenre' = [respGenre EXCEPT ![r] = Whole(reqGenre[r])]
          /\ UNCHANGED currentGenre
     ELSE /\ status' = [status EXCEPT ![r] = 500]
          /\ currentGenre' = AfterWriteFail(currentGenre)
          /\ UNCHANGED <<genreFile, respGenre>>
  /\ gpc' = [gpc EXCEPT ![r] = "done"]
  /\ settled' = [genre |-> reqGenre[r], alone |-> ~overlapped[r]]
  /\ UNCHANGED <<reqGenre, words, obs, overlapped, clean, expect,
                 shape, exceptGenre>>

\* handleCurrentGenre, lines 370-385: the headers and the method checks
CurrentGenreBegin(r) ==
  /\ gpc[r] = "idle"
  /\ \A q \in Reqs : q < r => gpc[q] # "idle"
  /\ gpc' = [gpc EXCEPT ![r] = "load"]
  /\ clean' = [clean EXCEPT ![r] = (InFlight = {})]
  /\ expect' = [expect EXCEPT ![r] = settled]
  /\ UNCHANGED <<currentGenre, genreFile, reqGenre, words, obs, status, respGenre,
                 overlapped, settled, shape, exceptGenre>>

\* handleCurrentGenre, lines 386-390: the load of currentGenre, one word at a
\* time with no lock held, and the response once both are loaded
CurrentGenreLoad(r, w) ==
  /\ gpc[r] = "load"
  /\ w \notin words[r]
  /\ LET o == [obs[r] EXCEPT ![w] = currentGenre[w]] IN
     IF words[r] \cup {w} = Words
     THEN /\ gpc' = [gpc EXCEPT ![r] = "done"]
          /\ status' = [status EXCEPT ![r] = 200]
          /\ respGenre' = [respGenre EXCEPT ![r] = o]
          /\ words' = [words EXCEPT ![r] = {}]
          /\ obs' = [obs EXCEPT ![r] = NoString]
     ELSE /\ obs' = [obs EXCEPT ![r] = o]
          /\ words' = [words EXCEPT ![r] = words[r] \cup {w}]
          /\ UNCHANGED <<gpc, status, respGenre>>
  /\ UNCHANGED <<currentGenre, genreFile, reqGenre, overlapped, settled, clean,
                 expect, shape, exceptGenre>>

InitGenre ==
  /\ currentGenre = Whole(DefaultGenre)
  /\ genreFile = <<>>
  /\ gpc = [r \in Reqs |-> "idle"]
  /\ reqGenre = [r \in Reqs |-> ""]
  /\ words = [r \in Reqs |-> {}]
  /\ obs = [r \in Reqs |-> NoString]
  /\ status = [r \in Reqs |-> 0]
  /\ respGenre = [r \in Reqs |-> NoString]
  /\ overlapped = [r \in Reqs |-> FALSE]
  /\ settled = [genre |-> DefaultGenre, alone |-> TRUE]
  /\ clean = [r \in Reqs |-> FALSE]
  /\ expect = [r \in Reqs |-> [genre |-> "", alone |-> FALSE]]
  /\ shape = [r \in Reqs |-> "none"]

NextGenre ==
  \/ \E r \in Reqs, body \in Bodies : GenreChangeBegin(r, body)
  \/ \E r \in Reqs, w \in Words : GenreAssign(r, w)
  \/ \E r \in Reqs, ok \in BOOLEAN : GenreWriteFile(r, ok)
  \/ \E r \in Reqs : CurrentGenreBegin(r)
  \/ \E r \in Reqs, w \in Words : CurrentGenreLoad(r, w)

-----------------------------------------------------------------------------
(* unnamed/part_001: the method checks of the genre handlers, and serveHome *)

NoHttpRequest == [path |-> "-", method |-> "-"]
NoResponse == [status |-> 0, body |-> "none", cors |-> FALSE]

\* the first lines of handleGenreChange and handleCurrentGenre: the three
\* Access-Control-Allow headers, then 200 for OPTIONS and 405 for a method
\* other than the handler's own
MethodCheck(method) ==
  IF method = "OPTIONS"
  THEN [status |-> 200, body |-> "empty", cors |-> TRUE]
  ELSE [status |-> 405, body |-> "error", cors |-> TRUE]

\* serveHome: the Content-Type header and the page, whatever the method
HomeResponse(method) == [status |-> 200, body |-> "html", cors |-> FALSE]

\* the requests are numbered in order of arrival
NextToArrive(r) == hreq[r] = NoHttpRequest /\ \A q \in Reqs : q < r => hreq[q] # NoHttpRequest

\* handleGenreChange, lines 320-334, for a request that is no POST
GenreChangeMethod(r, method) ==
  /\ NextToArrive(r)
  /\ method # "POST"
  /\ hreq' = [hreq EXCEPT ![r] = [path |-> "/genre", method |-> method]]
  /\ hresp' = [hresp EXCEPT ![r] = MethodCheck(method)]
  /\ UNCHANGED exceptHttp

\* handleCurrentGenre, lines 370-384, for a request that is no GET
CurrentGenreMethod(r, method) ==
  /\ NextToArrive(r)
  /\ method # "GET"
  /\ hreq' = [hreq EXCEPT ![r] = [path |-> "/current-genre", method |-> method]]
  /\ hresp' = [hresp EXCEPT ![r] = MethodCheck(method)]
  /\ UNCHANGED exceptHttp

\* serveHome, registered for "/"
ServeHome(r, method) ==
  /\ NextToArrive(r)
  /\ hreq' = [hreq EXCEPT ![r] = [path |-> "/", method |-> method]]
  /\ hresp' = [hresp EXCEPT ![r] = HomeResponse(method)]
  /\ UNCHANGED exceptHttp

InitHttp ==
  /\ hreq = [r \in Reqs |-> NoHttpRequest]
  /\ hresp = [r \in Reqs |-> NoResponse]

NextMethods ==
  \/ \E r \in Reqs, method \in Methods : GenreChangeMethod(r, method)
  \/ \E r \in Reqs, method \in Methods : CurrentGenreMethod(r, method)
  \/ \E r \in Reqs, method \in Methods : ServeHome(r, method)

\* the server as far as the method of a request decides its answer
NextHttp == NextOffer \/ NextMethods

-----------------------------------------------------------------------------
(* Properties of the broadcast sink (backend/main.go) *)

Range(q) == {q[i] : i \in 1..Len(q)}

\* a step of the broadcast manager: only Publish takes an update off the queue
PublishStep == BroadcastChannel # <<>> /\ BroadcastChannel' = Tail(BroadcastChannel)

\* C1: every StreamUpdates call receives exactly the updates that were fanned
\* out while it was attached (from its registration to its own cleanup or its
\* eviction), in publication order, none missing and none duplicated.
C1_ExactDelivery == \A s \in Streams : got[s] = want[s]

\* The fan-out step by itself: the manager can take the next update whenever
\* there is one, and in that same step every registered client whose channel is
\* full is closed and removed from the registry while every other registered
\* client gets the update appended and stays registered.
SameStepEviction ==
  /\ [](BroadcastChannel # <<>> /\ ~crashed => ENABLED Publish)
  /\ [][PublishStep =>
         /\ ~crashed'
         /\ \A s \in Targets :
              IF Len(clientChan[s]) >= ClientChanCap
              THEN /\ clientID[s] \notin DOMAIN clients'
                   /\ chanClosed'[s]
                   /\ clientChan'[s] = clientChan[s]
              ELSE /\ clientChan'[s] = Append(clientChan[s], Head(BroadcastChannel))
                   /\ clientID[s] \in DOMAIN clients' /\ clients'[clientID[s]] = s
                   /\ ~chanClosed'[s]]_vars

\* C2: a fan-out step is never held up by a client whose channel is full: that
\* client is removed in the same step, every other registered client receives
\* the update, and the eviction costs the others nothing afterwards either:
\* the server keeps running and keeps fanning out the later updates.
C2_PublishNonBlocking ==
  /\ SameStepEviction
  /\ [](\A s \in Streams : evictedAt[s] > 0 => ~crashed)

SharedBy(s, t) ==
  LET Both(i) == i \in Range(want[s]) \cap Range(want[t])
  IN  SelectSeq(got[s], Both)

\* C19: two StreamUpdates calls that are attached at the same time have
\* different ids, each is the entry of its own id in s.clients (neither has
\* replaced the other), and both were sent the same updates, in the same
\* order, of those fanned out while both were attached.
C19_ConcurrentSessions ==
  \A s, t \in Streams : (s # t /\ attached[s] /\ attached[t]) =>
      /\ clientID[s] # clientID[t]
      /\ Registered(s) /\ Registered(t)
      /\ SharedBy(s, t) = SharedBy(t, s)

\* the step runs the deferred cleanup of the call s
CleanupStep(s) == spc[s] = "cleanup" /\ spc'[s] = "done"

\* C23: no channel is closed twice: when the deferred cleanup of a call runs
\* its close(clientChan), the channel has not been closed by the manager.
C23_NoDoubleClose ==
  [][\A s \in Streams : CleanupStep(s) => (~chanClosed[s] /\ ~crashed')]_vars

\* C24: the cleanup of a call touches only that call's registration: every
\* other call that was registered before the step is registered after it, and
\* no other call's channel is closed by it.
C24_ExitRemovesOwnOnly ==
  [][\A s \in Streams : CleanupStep(s) =>
        \A t \in Streams \ {s} : /\ Registered(t) => Registered(t)'
                                  /\ chanClosed'[t] = chanClosed[t]]_vars

\* C25: every channel in s.clients is open; a step that closes a channel
\* leaves it out of the registry; and the manager's loop never meets a closed
\* channel, so no fan-out step ends in the panic of a send on a closed channel.
C25_RegistryChannelsOpen ==
  /\ [](\A k \in DOMAIN clients : ~chanClosed[clients[k]])
  /\ [][\A s \in Streams : (chanClosed'[s] /\ ~chanClosed[s]) => ~Registered(s)']_vars
  /\ [][PublishStep => \A s \in Targets : ~chanClosed[s]]_vars

\* C25 witness: the channel of a call was closed, and its id is in the registry
\* again, held by a later call with the same id
C25_Witness ==
  \E s \in Streams : /\ chanClosed[s]
                      /\ clientID[s] \in DOMAIN clients
                      /\ clients[clientID[s]] # s

-----------------------------------------------------------------------------
(* Properties of HandleUserPrompt (backend/main.go) *)

\* the step is one of the call c
CallStep(c) == upc'[c] # upc[c]
\* the LLM decision of the call c failed
DecisionFailed(c) == llm[c].err /\ upc[c] \in {"errpush", "done"}

\* C27: a call whose LLM decision failed returns Success=false having pushed
\* one update, of type SYSTEM_STATUS, and nothing else; and no step of such a
\* call changes HostState.CurrentGenre or the conversation history.
C27_LLMFailureReported ==
  /\ [](\A c \in Calls : DecisionFailed(c) =>
          /\ \A i \in 1..Len(sent[c]) : sent[c][i].type = "SYSTEM_STATUS"
          /\ Len(sent[c]) = (IF upc[c] = "done" THEN 1 ELSE 0)
          /\ upc[c] = "done" => resp[c] = "fail")
  /\ [][\A c \in Calls : (CallStep(c) /\ llm'[c].err) =>
          UNCHANGED <<hostGenre, history, mu>>]_vars

\* C27 witness: a call has returned Success=false after another call had
\* changed the genre and the history
C27_Witness ==
  \E c \in Calls : /\ upc[c] = "done" /\ resp[c] = "fail"
                    /\ hostGenre = "rock" /\ Len(history) = 2

\* the LLM result of the call c carries no music prompts
NoPrompts(c) == ~llm[c].err /\ Len(llm[c].prompts) = 0
\* the call c has completed as a success does
CompletedNormally(c) ==
  /\ resp[c] = "ok"
  /\ Len(sent[c]) = 2
  /\ sent[c][1].type = "HOST_SPEECH"
  /\ sent[c][2].type = "GENRE_CHANGE"
  /\ \E i \in 1..(Len(history) - 1) :
        /\ history[i] = [role |-> "user", call |-> c]
        /\ history[i + 1] = [role |-> "assistant", call |-> c]

\* C28: a call whose LLM result has no music prompts does not fail: the
\* server keeps running, and when the call is done it has completed normally
\* with the initial genre as the genre it announces.
C28_EmptyPromptsFallback ==
  \A c \in Calls : NoPrompts(c) =>
      /\ upc[c] # "panic" /\ ~crashed
      /\ upc[c] = "done" => (CompletedNormally(c) /\ sent[c][2].genre = initialCurrentGenre)

\* the step in which the call c pushes its GENRE_CHANGE update and returns
AnnounceStep(c) == upc[c] = "genre" /\ upc'[c] = "done"

\* The genre is replaced exactly when the first prompt is not the marker.
GenreReplacedUnlessKept ==
  [][\A c \in Calls : (upc[c] = "assistant" /\ upc'[c] = "speech") =>
        hostGenre' = (IF llm[c].prompts[1] = KeepCurrent THEN hostGenre
                      ELSE llm[c].prompts[1])]_vars

\* C29: the GENRE_CHANGE update of a successful call names the genre that
\* HostState.CurrentGenre holds when the update is pushed.
C29_AnnouncedIsStored ==
  [][\A c \in Calls : AnnounceStep(c) =>
        sent'[c][Len(sent'[c])].genre = hostGenre']_vars

\* the entries are user, assistant, user, assistant, ... and each assistant
\* entry is of the call of the user entry before it
Alternates(h) ==
  \A i \in 1..Len(h) :
     IF i % 2 = 1
     THEN h[i].role = "user"
     ELSE h[i].role = "assistant" /\ h[i].call = h[i - 1].call

\* C30: the history only grows, one entry at the end per step; between the
\* calls' locked sections it has even length; it alternates user/assistant in
\* pairs of one call; and a call that returned Success=true has added exactly
\* its one pair.
C30_HistoryPairs ==
  /\ [][history' = history \/ (\E e \in {history'[Len(history')]} :
                                  Len(history') > 0 /\ history' = Append(history, e))]_vars
  /\ [](Alternates(history))
  /\ [](mu = 0 => Len(history) % 2 = 0)
  /\ [](\A c \in Calls :
          Cardinality({i \in 1..Len(history) : history[i].call = c})
             = (IF resp[c] = "ok" \/ upc[c] \in {"speech", "genre"} THEN 2
                ELSE IF upc[c] = "assistant" THEN 1 ELSE 0))

\* C30 witness: two successful calls ran at the same time, the second waiting
\* for the lock while the first appended, and both pairs are in the history
C30_Witness ==
  \E c, d \in Calls : /\ c # d
                       /\ resp[c] = "ok" /\ resp[d] = "ok"
                       /\ snap[c] = 0 /\ snap[d] = 0
                       /\ Len(history) >= 4

\* As long as the process lives nothing on the notification path waits for
\* ever: a call that has started returns, a held lock is released and the
\* generator's send goes through, unless the process has died.
NoDeadlockWhileRunning ==
  /\ \A c \in Calls : (upc[c] # "idle") ~> (upc[c] = "done" \/ crashed)
  /\ (mu # 0) ~> (mu = 0 \/ crashed)
  /\ (vpc = "push") ~> (vpc = "tick" \/ crashed)

\* C31: every HandleUserPrompt call that has started returns, the HostState
\* lock is released whenever it is taken, and a virtual comment that is to be
\* pushed is pushed.
C31_NotificationLive ==
  /\ \A c \in Calls : (upc[c] # "idle") ~> (upc[c] = "done")
  /\ (mu # 0) ~> (mu = 0)
  /\ (vpc = "push") ~> (vpc = "tick")

-----------------------------------------------------------------------------
(* Properties of the pipeline (unnamed/part_001, generateAudio) *)

PipelinePCs == {"open", "sleep", "tick", "read", "encode", "write", "close"}

\* C4: the pipeline never terminates; a failed open is followed by the sleep
\* and the sleep by another open, any number of times; and if from some point
\* on the FIFO stays held by a writer, the encoder works and full frames keep
\* arriving, samples are written to the track again and again.
C4_RetryForever ==
  /\ [](ppc \in PipelinePCs)
  /\ [][(ppc = "open" /\ fifo = "missing" /\ ppc' # ppc) => ppc' = "sleep"]_vars
  /\ [][(ppc = "sleep" /\ ppc' # ppc) => ppc' = "open"]_vars
  /\ ((<>[](fifo = "writing" /\ ~encFault) /\ []<>(pipeBytes >= bytesPerFrame))
        => []<><<WriteSample>>_vars)

\* C4 witness: the open failed, and since then a sample was written
C4_Witness == lastFault = "openfail" /\ pubSinceFault /\ ppc = "tick"

\* C5: a failed read leads to pipe.Close() and from there to the open; no step
\* of the pipeline changes the state of any session; and every sample written,
\* also after a reconnect, goes to all the sessions attached at that moment.
C5_ReconnectKeepsSessions ==
  /\ [][(ppc = "read" /\ ppc' \notin {"read", "encode"}) => ppc' = "close"]_vars
  /\ [][(ppc = "close" /\ ppc' # ppc) =>
          (ppc' = "open" /\ pipeOpen' = pipeOpen - 1)]_vars
  /\ [][ppc' # ppc => sess' = sess]_vars
  /\ [][(ppc = "write" /\ ppc' # ppc) => heard' = Legs]_vars

\* C5 witness: after a read failure and with no session negotiated since, a
\* sample was written and reached every attached session.
C5_Witness ==
  /\ lastFault = "readfail"
  /\ pubSinceFault
  /\ ~offerSinceFail
  /\ Legs # {}
  /\ heard = Legs

\* C6: a frame is 3840 bytes; the pipeline encodes and writes only with a
\* whole frame in its buffer, and each read either takes exactly one frame
\* from the pipe or, on fewer bytes, goes to the close and reopen without
\* a sample being written.
C6_FullFrameOnly ==
  /\ [](bytesPerFrame = 3840)
  /\ [](ppc \in {"encode", "write"} => frameLen = bytesPerFrame)
  /\ [](ppc = "close" => frameLen < bytesPerFrame)
  /\ [][(ppc = "read" /\ ppc' # ppc) =>
          IF pipeBytes >= bytesPerFrame
          THEN ppc' = "encode" /\ pipeBytes' = pipeBytes - bytesPerFrame
          ELSE ppc' = "close" /\ heard' = heard /\ ~pubSinceFault']_vars

\* C6 witness: a read ended with half a frame and the pipeline is on its way
\* to the reopen
C6_Witness == ppc = "close" /\ frameLen = bytesPerFrame \div 2

C8_EncodeFailureSkips ==
  [][(ppc = "encode" /\ encFault /\ ppc' # ppc) =>
       /\ ppc' = "tick"
       /\ pipeOpen' = pipeOpen
       /\ pipeBytes' = pipeBytes
       /\ heard' = heard
       /\ sess' = sess]_vars

\* C8 witness: after an encode failure a sample was written on the same open pipe
C8_Witness == lastFault = "encfail" /\ pubSinceFault /\ pipeOpen = 1

\* C32: the relay holds at most one open handle on the pipe; it holds none
\* when it is about to open or sleeps before a retry; and a handle is opened
\* only when none is held, so after a read failure the old one was closed.
C32_OneConnection ==
  /\ [](pipeOpen \in {0, 1})
  /\ [](ppc \in {"open", "sleep"} => pipeOpen = 0)
  /\ [][pipeOpen' > pipeOpen => (pipeOpen = 0 /\ ppc = "open")]_vars

\* C32 witness: after a read failure the pipe was opened again and a sample
\* of the new connection was written, with one handle open
C32_Witness == lastFault = "readfail" /\ pubSinceFault /\ pipeOpen = 1 /\ ppc = "tick"

-----------------------------------------------------------------------------
(* Properties of the sessions (unnamed/part_001, handleOffer) *)

\* a POST /offer whose body passed the read and the unmarshal
SetupRequest(s) == oreq[s].method = "POST" /\ ~BodyRejected(oreq[s].body)
\* the request ended without an answer: one of the setup calls failed
SetupFailed(s) == SetupRequest(s) /\ opc[s] = "done" /\ obody[s] # "answer"
\* nothing of the request is left: no open transport, no leg, no drain task
Released(s) == pc[s] # "open" /\ leg[s] = 0 /\ ~drain[s]

\* Whatever call of the setup fails, the request is answered with 500.
SetupFailureAnswers500 == \A s \in Sessions : SetupFailed(s) => ostatus[s] = 500

\* C14: when one of the setup calls of a POST /offer fails the request is
\* answered with 500 and nothing of it remains: its transport is not open, it
\* has no leg on the audio track and no feedback-drain task of it runs.
C14_FailureLeavesNothing ==
  \A s \in Sessions : SetupFailed(s) => (ostatus[s] = 500 /\ Released(s))

\* the request came with a body that is no well-formed session description
Malformed(s) == oreq[s].method = "POST" /\ oreq[s].body # "offer"
NoSession(s) == sess[s] = "none" /\ pc[s] = "none" /\ leg[s] = 0 /\ ~drain[s]

\* A body that cannot be read or is no JSON is answered 400 with no Session.
UnparsableOfferRejected ==
  \A s \in Sessions : (oreq[s].method = "POST" /\ BodyRejected(oreq[s].body)) =>
      (NoSession(s) /\ opc[s] = "done" /\ ostatus[s] = 400)

\* C15: a POST /offer whose body is no well-formed session description never
\* has a transport or a leg on the audio track, and its answer is 400.
C15_MalformedOfferRejected ==
  \A s \in Sessions : Malformed(s) =>
      (NoSession(s) /\ (opc[s] = "done" => ostatus[s] = 400))

\* C16: an answer is sent only with status 200, after the gathering of the
\* request's transport has completed and with exactly one leg of that
\* transport on the shared audio track; the step that sends the answer starts
\* from a state in which the gathering is complete.
C16_AnswerAfterGathering ==
  /\ [](\A s \in Sessions : obody[s] = "answer" =>
          (ostatus[s] = 200 /\ gathered[s] /\ pc[s] = "open" /\ leg[s] = 1))
  /\ [][\A s \in Sessions : (obody'[s] = "answer" /\ obody[s] # "answer") =>
          (gathered[s] /\ leg[s] = 1)]_vars

\* C16 witness: a POST /offer was answered after its gathering had completed
C16_Witness ==
  \E s \in Sessions : opc[s] = "done" /\ obody[s] = "answer" /\ gathered[s]

\* the moves of a Session
Lifecycle == {<<"none", "negotiating">>, <<"negotiating", "active">>, <<"active", "closed">>}

\* No step of the program closes a transport, takes a leg off the audio track
\* or ends a drain task.
NothingReleased ==
  [][\A s \in Sessions : /\ pc[s] = "open" => pc'[s] = "open"
                         /\ leg[s] = 1 => leg'[s] = 1
                         /\ drain[s] => drain'[s]]_vars

\* C17: a Session moves only negotiating -> active -> closed, and a closed
\* Session has its transport closed, its leg taken off the audio track and its
\* drain task ended.
C17_ClosedSessionReleased ==
  /\ [][\A s \in Sessions : sess'[s] # sess[s] => <<sess[s], sess'[s]>> \in Lifecycle]_vars
  /\ [](\A s \in Sessions : sess[s] = "closed" => Released(s))

\* the Session of the request exists and is not closed
Alive(s) == sess[s] \in {"negotiating", "active"} /\ ostatus[s] # 500

\* The drain task is started with the leg, once per request, and every Session
\* that was answered has one.
OneDrainPerSession ==
  /\ [](\A s \in Sessions : (drain[s] <=> leg[s] = 1) /\ (sess[s] = "active" => drain[s]))
  /\ [][\A s \in Sessions : (drain'[s] /\ ~drain[s]) => opc[s] = "setup"]_vars

\* C18: a Session that is negotiating or active from the adding of its leg on
\* has its one drain task, and a drain task runs only while its Session is
\* alive: none runs for a request that failed or for a closed Session.
C18_DrainWithinSession ==
  \A s \in Sessions :
     /\ (Alive(s) /\ leg[s] = 1) => drain[s]
     /\ drain[s] => Alive(s)

\* the step ends the request s with an error response
FailStep(s) == opc[s] # "done" /\ opc'[s] = "done" /\ ostatus'[s] \in {400, 500}
\* the state of generateAudio
PipelineState == <<ppc, fifo, pipeBytes, pipeOpen, tickerC, frameLen, encFault, heard>>
\* all of a request and its Session
SessionOf(s) == <<opc[s], oreq[s], ostatus[s], obody[s], sess[s], pc[s], leg[s],
                  drain[s], gathered[s]>>

\* C21: a step that ends a POST /offer with 400 or 500 leaves the pipeline's
\* state as it is, changes nothing of any other request or Session, and
\* leaves the set of legs the pipeline's samples go to unchanged; the
\* failed request itself is none of them.
C21_FailedOfferIsolated ==
  [][\A s \in Sessions : FailStep(s) =>
        /\ UNCHANGED PipelineState
        /\ \A t \in Sessions \ {s} : SessionOf(t)' = SessionOf(t)
        /\ Legs' = Legs
        /\ s \notin Legs']_vars

\* C21 witness: a request has failed after its transport was made while
\* another Session is active with its leg on the audio track
C21_Witness ==
  \E s, t \in Sessions : /\ s # t
                          /\ ostatus[s] = 500 /\ pc[s] = "open"
                          /\ sess[t] = "active" /\ t \in Legs

\* C22: there is one pipeline task, which has not ended, and the one Opus
\* encoder is the one generateAudio made; every leg of a request, whatever
\* became of its Session, is a sender of the one track audioTrack.
C22_OneSharedStream ==
  /\ ppc \in PipelinePCs
  /\ encoders = {"generateAudio"}
  /\ \A s \in Sessions : leg[s] = 1 => legTrack[s] = "audioTrack"
  /\ Cardinality({legTrack[s] : s \in {x \in Sessions : leg[x] = 1}}) <= 1

\* C22 witness: two Sessions were made and one of them has closed, while the
\* pipeline is in a cycle with an encoded frame to write
C22_Witness ==
  /\ \E s, t \in Sessions : s # t /\ sess[s] = "closed" /\ sess[t] = "active"
                            /\ leg[s] = 1 /\ leg[t] = 1
  /\ ppc = "write"

\* r is a POST /genre
IsPost(r) == shape[r] # "none"
\* no request is in progress, and no POST /genre failed to write the file
AllWritten ==
  /\ \A r \in Reqs : gpc[r] \in {"idle", "done"}
  /\ \A r \in Reqs : IsPost(r) => status[r] # 500
  /\ \E r \in Reqs : IsPost(r) /\ status[r] = 200

\* C26: when all POST /genre requests have completed and every file write
\* succeeded, currentGenre is a whole string and the genre file names that
\* same genre.
C26_MemoryMatchesFile ==
  AllWritten => \E r \in Reqs : /\ IsPost(r)
                                /\ currentGenre = Whole(reqGenre[r])
                                /\ genreFile = FileContent(reqGenre[r])

-----------------------------------------------------------------------------
(* Properties of the OPTIONS requests (unnamed/part_001) *)

PreflightResponse == [status |-> 200, body |-> "empty", cors |-> TRUE]
\* the response of the /offer request s, in the form of the others
OfferResponse(s) == [status |-> ostatus[s], body |-> obody[s], cors |-> ocors[s]]
\* the step handles an OPTIONS request
OptionsStep ==
  \/ \E s \in Sessions : oreq'[s] # oreq[s] /\ oreq'[s].method = "OPTIONS"
  \/ \E r \in Reqs : hreq'[r] # hreq[r] /\ hreq'[r].method = "OPTIONS"
\* Sessions, GenreState and the signal artifact
ServerState == <<sess, pc, leg, drain, currentGenre, genreFile>>

\* /offer, /genre and /current-genre answer OPTIONS with 200, no body and the
\* CORS headers.
ApiPreflight ==
  /\ \A s \in Sessions : oreq[s].method = "OPTIONS" => OfferResponse(s) = PreflightResponse
  /\ \A r \in Reqs : (hreq[r].method = "OPTIONS" /\ hreq[r].path # "/") =>
        hresp[r] = PreflightResponse

\* C20: on each of /offer, /genre, /current-genre and / an OPTIONS request is
\* answered with 200, an empty body and the CORS headers, and the step that
\* handles it changes no Session, not currentGenre and not the genre file.
C20_Preflight ==
  /\ [](\A s \in Sessions : oreq[s].method = "OPTIONS" => OfferResponse(s) = PreflightResponse)
  /\ [](\A r \in Reqs : hreq[r].method = "OPTIONS" => hresp[r] = PreflightResponse)
  /\ [][OptionsStep => UNCHANGED ServerState]_vars

-----------------------------------------------------------------------------
(* Properties of the genre handlers (unnamed/part_001) *)

\* a request's handler has returned with its response
Answered(r) == gpc[r] = "done"

\* a step of request r's handler
StepOf(r) == gpc'[r] # gpc[r] \/ words'[r] # words[r]

\* C11: a POST /genre whose body has not the shape {genre: string} is answered
\* with 400, and no step of its handler changes currentGenre or the genre file.
C11_MalformedRejected ==
  /\ [](\A r \in Reqs : (shape[r] = "mismatch" /\ Answered(r)) => status[r] = 400)
  /\ [][\A r \in Reqs : (shape'[r] = "mismatch" /\ StepOf(r)) =>
          (currentGenre' = currentGenre /\ genreFile' = genreFile)]_vars

\* What does hold: a body the decoder refuses is answered 400, and nothing of
\* such a request ever reaches currentGenre or the genre file.
DecodeErrorRejected ==
  /\ [](\A r \in Reqs : status[r] = 400 => (Answered(r) /\ shape[r] = "mismatch"))
  /\ [][\A r \in Reqs : (status[r] = 0 /\ status'[r] = 400) =>
          (currentGenre' = currentGenre /\ genreFile' = genreFile)]_vars

\* C12: a body that decodes is accepted whatever its string; each store of the
\* request puts req.Genre into a word of currentGenre, so that a POST /genre
\* overlapping no other leaves currentGenre = req.Genre when its assignment is
\* done; and the write of the genre file puts exactly "SMOOTH:" followed by
\* req.Genre there, the genre the success body names.
C12_AcceptedSetsBoth ==
  /\ [][\A r \in Reqs : (shape[r] = "none" /\ shape'[r] = "match") =>
          (gpc'[r] = "assign" /\ reqGenre'[r] \in Genres)]_vars
  /\ [][\A r \in Reqs : (gpc[r] = "assign" /\ StepOf(r)) =>
          \E w \in Words : currentGenre' = [currentGenre EXCEPT ![w] = reqGenre[r]]]_vars
  /\ [][\A r \in Reqs : (gpc[r] = "assign" /\ gpc'[r] = "file" /\ ~overlapped[r]) =>
          currentGenre' = Whole(reqGenre[r])]_vars
  /\ [][\A r \in Reqs : (gpc[r] = "file" /\ status'[r] = 200) =>
          /\ genreFile' = <<"SMOOTH:", reqGenre[r]>>
          /\ respGenre'[r] = Whole(reqGenre[r])
          /\ currentGenre' = currentGenre]_vars

\* C12 witness: a POST /genre for "jazz" was answered with success, and
\* currentGenre is "jazz" and the genre file "SMOOTH:" "jazz"
C12_Witness ==
  \E r \in Reqs :
    /\ Answered(r) /\ status[r] = 200 /\ shape[r] = "match"
    /\ reqGenre[r] = "jazz"
    /\ currentGenre = Whole("jazz")
    /\ genreFile = <<"SMOOTH:", "jazz">>

\* C13: a POST /genre is answered once, with 400, 500 or the success body, and
\* its answer never changes; the step after the assignment answers 500 without
\* a genre when os.WriteFile failed and the success body naming req.Genre when
\* it succeeded; on the 500 the step leaves currentGenre as it is, which for a
\* POST /genre that overlapped no other is req.Genre.
C13_DefinitiveOutcome ==
  /\ [](\A r \in Reqs : (Answered(r) /\ shape[r] # "none") =>
          /\ status[r] \in {200, 400, 500}
          /\ (status[r] = 200 <=> respGenre[r] # NoString)
          /\ (status[r] = 200 => respGenre[r] = Whole(reqGenre[r])))
  /\ [][\A r \in Reqs : Answered(r) =>
          (Answered(r)' /\ status'[r] = status[r] /\ respGenre'[r] = respGenre[r])]_vars
  /\ [][\A r \in Reqs : (gpc[r] = "file" /\ StepOf(r)) =>
          /\ Answered(r)'
          /\ status'[r] \in {200, 500}
          /\ status'[r] = 200 => genreFile' = FileContent(reqGenre[r])
          /\ status'[r] = 500 =>
                /\ currentGenre' = currentGenre
                /\ ~overlapped[r] => currentGenre' = Whole(reqGenre[r])]_vars

\* C13 witness: a POST /genre for "jazz" was answered 500 while the genre file
\* is not there, and currentGenre is "jazz"
C13_Witness ==
  \E r \in Reqs :
    /\ Answered(r) /\ status[r] = 500 /\ respGenre[r] = NoString
    /\ reqGenre[r] = "jazz"
    /\ genreFile = <<>>
    /\ currentGenre = Whole("jazz")

\* C9: a GET /current-genre that runs while no POST /genre is in progress
\* answers the genre of the POST /genre that completed last, and the default
\* "lofi hip hop" when none has completed.
C9_ReadAfterWrite ==
  \A r \in Reqs :
    (gpc[r] = "done" /\ clean[r]) =>
      (status[r] = 200 /\ respGenre[r] = Whole(expect[r].genre))

\* What does hold: the same, for a last POST /genre that overlapped no other
\* POST /genre.
ReadAfterLoneWrite ==
  \A r \in Reqs :
    (gpc[r] = "done" /\ clean[r] /\ expect[r].alone) =>
      (status[r] = 200 /\ respGenre[r] = Whole(expect[r].genre))

\* ... and it happens: a GET has answered the genre such a POST had set
ReadAfterLoneWriteSeen ==
  \E r \in Reqs :
    /\ gpc[r] = "done"
    /\ clean[r]
    /\ expect[r].alone
    /\ expect[r].genre \in Genres
    /\ respGenre[r] = Whole(expect[r].genre)

\* C10: the accesses to currentGenre exclude one another, so the two words a
\* GET /current-genre loads come from one and the same store: no response
\* carries a string put together from two values.
C10_Synchronized == \A r \in Reqs : respGenre[r].ptr = respGenre[r].len

-----------------------------------------------------------------------------
Init == InitBroadcast /\ InitPrompt /\ InitPipeline /\ InitOffer /\ InitGenre /\ InitHttp

Next == NextBroadcast \/ NextPrompt \/ NextPipeline \/ NextOffer \/ NextGenre \/ NextMethods

SpecBroadcast == Init /\ [][NextBroadcast]_vars

SpecPrompt == Init /\ [][NextPrompt]_vars

\* Every goroutine that can take a step gets to take it: the manager, the
\* generator's send, the steps of each call; the LLM call returns (the HTTP
\* client has a 30 s timeout).
FairNotify ==
  /\ Init /\ [][NextNotify]_vars
  /\ WF_vars(Publish)
  /\ WF_vars(VirtualComment)
  /\ \A c \in Calls :
        /\ WF_vars(\E res \in LLMResults : LLMReturn(c, res))
        /\ WF_vars(ErrPush(c))
        /\ WF_vars(PromptLock(c))
        /\ WF_vars(AppendUser(c))
        /\ WF_vars(AppendAssistant(c))
        /\ WF_vars(PushSpeech(c))
        /\ WF_vars(PushGenreChange(c))

SpecPipeline == Init /\ [][NextPipeline]_vars

\* The generateAudio goroutine is scheduled whenever it can run, and the
\* runtime's ticker keeps firing.
FairPipeline ==
  /\ SpecPipeline
  /\ WF_vars(OpenPipe) /\ WF_vars(Sleep) /\ WF_vars(Tick) /\ WF_vars(ReadFrame)
  /\ WF_vars(Encode) /\ WF_vars(WriteSample) /\ WF_vars(ClosePipe)
  /\ WF_vars(TickFire)

SpecOffer == Init /\ [][NextOffer]_vars

SpecHttp == Init /\ [][NextHttp]_vars

SpecGenre == Init /\ [][NextGenre]_vars

Spec == Init /\ [][Next]_vars

====
